---- MODULE Spec2Model ----
(***************************************************************************)
(* A model of src/src/index.ts: the ChatBot intent pipeline.               *)
(*                                                                         *)
(*   - ChatBot's fields (classifiers, intents, skills, reducer), the user  *)
(*     record a caller passes to processText, and the requests in flight   *)
(*     are the state;                                                      *)
(*   - unshiftIntent, unshiftSkill, setReducer, retrainClassifiers and the *)
(*     steps of processText's promise chain are the actions;               *)
(*   - baseBotTextNLP, checkUsingClassifier, defaultReducer and            *)
(*     createEmptyUser are operators, together with the lodash helpers     *)
(*     they call (compact, flatten, defaults, orderBy, startCase).         *)
(*                                                                         *)
(* JavaScript values are modelled as follows.  null is the record Null.    *)
(* A string that the code inspects character by character (a label) is a   *)
(* sequence of one-character strings.  A field that holds a string or null *)
(* (an intent's action and topic) holds Null or Str(s).  A confidence is   *)
(* an integer number of tenths (0.6 is 6).  An object is a function from   *)
(* its keys, so that an absent key is a key outside the DOMAIN.            *)
(***************************************************************************)
EXTENDS FiniteSets, Integers, Sequences, TLC

VARIABLES
    classifiers,   \* this.classifiers: the classifier bank
    classifier,    \* the classifier family imported from ./classifier
    intents,       \* this.intents: the extractors, in execution order
    skills,        \* this.skills: the skills, in execution order
    reducer,       \* this.reducer
    user,          \* the User object the caller passes to processText
    reqs,          \* the processText calls: position in the promise chain and locals
    registered,    \* history: the functions passed to unshiftIntent / unshiftSkill, in call
                   \* order, and the function passed to the last setReducer call
    call           \* the last direct call of a pure function: its input and output

vars == <<classifiers, classifier, intents, skills, reducer, user, reqs, registered, call>>

----------------------------------------------------------------------------
(* Bounds of the model *)

\* Largest confidence a classifier reports, in tenths.
MaxValue == 8
\* Longest candidate list handed directly to defaultReducer.
MaxCands == 3
\* processText calls per behaviour of the serialized caller.
MaxCalls == 2
\* unshiftIntent calls per behaviour.
MaxUnshiftIntent == 1
\* unshiftSkill calls per behaviour: where the skill walk is studied, and elsewhere.
MaxUnshiftSkill == 3
MaxUnshiftSkillElsewhere == 1
\* unshiftIntent and unshiftSkill calls (each) where registration alone is studied.
MaxRegistrations == 3
\* processText calls per behaviour of the caller that does not wait.
MaxOverlap == 2

(* Program constants *)

\* The confidence floor of the logistic-regression family, in tenths (0.6).
Threshold == 6

----------------------------------------------------------------------------
(* JavaScript values *)

Null == [null |-> TRUE]

\* A string in a field that may also hold null.
Str(s) == [str |-> s]

EmptyObject == [k \in {} |-> Null]

Texts == {"t1", "t2"}

\* The values a classifier may report around the floor.
Values == (Threshold - 1)..MaxValue

ClassifierFamilies == {"LogisticRegressionClassifier", "BayesClassifier"}

----------------------------------------------------------------------------
(* lodash and String helpers *)

RECURSIVE flatten(_)
\* _.flatten: one level; an element that is not an array is kept as it is.
\* An element is [array |-> TRUE, v |-> <<...>>] or [array |-> FALSE, v |-> value].
flatten(values) ==
    IF values = <<>> THEN <<>>
    ELSE (IF Head(values).array THEN Head(values).v ELSE <<Head(values).v>>)
         \o flatten(Tail(values))

\* _.compact: drops the falsy entries (here: null).
compact(values) == SelectSeq(values, LAMBDA x : x # Null)

\* _.assign instead of _.defaults: the source's keys win.
assignFrom(object, source) ==
    [k \in (DOMAIN object) \cup (DOMAIN source) |->
        IF k \in DOMAIN source THEN source[k] ELSE object[k]]

\* One source of _.defaults: fills the keys of object that are absent.
defaultsFrom(object, source) ==
    [k \in (DOMAIN object) \cup (DOMAIN source) |->
        IF k \in DOMAIN object THEN object[k] ELSE source[k]]

RECURSIVE defaultsAll(_, _)
defaultsAll(object, sources) ==
    IF sources = <<>> THEN object
    ELSE defaultsAll(defaultsFrom(object, Head(sources)), Tail(sources))

\* _.defaults(object, ...sources): sources applied left to right; an undefined
\* object becomes {} and an undefined source is skipped (both are EmptyObject here).
defaults(objects) ==
    IF objects = <<>> THEN EmptyObject
    ELSE defaultsAll(Head(objects), Tail(objects))

RECURSIVE insertDescUnstable(_, _)
\* An insertion that puts x before the elements of the same value.
insertDescUnstable(sorted, x) ==
    IF sorted = <<>> THEN <<x>>
    ELSE IF Head(sorted).value > x.value
         THEN <<Head(sorted)>> \o insertDescUnstable(Tail(sorted), x)
         ELSE <<x>> \o sorted

RECURSIVE insertDesc(_, _)
\* x goes after every element whose value is at least x's: a stable insertion.
insertDesc(sorted, x) ==
    IF sorted = <<>> THEN <<x>>
    ELSE IF Head(sorted).value >= x.value
         THEN <<Head(sorted)>> \o insertDesc(Tail(sorted), x)
         ELSE <<x>> \o sorted

RECURSIVE orderByValueDesc(_)
\* _.orderBy(list, ['value'], 'desc'): a stable sort, largest value first.
orderByValueDesc(list) ==
    IF list = <<>> THEN <<>>
    ELSE insertDesc(orderByValueDesc(SubSeq(list, 1, Len(list) - 1)), list[Len(list)])

\* The first index of character c in s, or 0.
indexOf(s, c) ==
    IF \E i \in 1..Len(s) : s[i] = c
    THEN CHOOSE i \in 1..Len(s) : s[i] = c /\ \A j \in 1..(i - 1) : s[j] # c
    ELSE 0

\* String.prototype.replace('-', ' ') with a string pattern: the first match only.
replaceDash(s) ==
    LET i == indexOf(s, "-")
    IN  IF i = 0 THEN s ELSE [s EXCEPT ![i] = " "]

Letters == {"a", "b", "c", "n", "y", "s", "j", "p", "h", "i"}

upper(c) ==
    CASE c = "a" -> "A" [] c = "b" -> "B" [] c = "c" -> "C" [] c = "n" -> "N"
      [] c = "y" -> "Y" [] c = "s" -> "S" [] c = "j" -> "J" [] c = "p" -> "P"
      [] c = "h" -> "H" [] c = "i" -> "I" [] OTHER -> c

RECURSIVE startCaseFrom(_, _, _)
\* The words of s (runs of letters), each with its first letter in upper case,
\* joined by single spaces.  atStart: no word has been written yet; inWord: the
\* previous character was a letter.
startCaseFrom(s, atStart, inWord) ==
    IF s = <<>> THEN <<>>
    ELSE IF Head(s) \in Letters
         THEN (IF inWord THEN <<Head(s)>>
               ELSE (IF atStart THEN <<>> ELSE <<" ">>) \o <<upper(Head(s))>>)
              \o startCaseFrom(Tail(s), FALSE, TRUE)
         ELSE startCaseFrom(Tail(s), atStart, FALSE)

\* _.startCase on a lower-case label.
startCase(s) == startCaseFrom(s, TRUE, FALSE)

----------------------------------------------------------------------------
(* The classifier bank: topic -> label -> classifier, in key order.        *)
(* A classifier is the function getClassifications(text)[0] computes: the  *)
(* best classification of the text, 'false' when the label is not in it.   *)

NotPresent == [label |-> "false", value |-> MaxValue]

Verdicts == {NotPresent} \cup {[label |-> "true", value |-> v] : v \in Values}

\* A classifier that answers v1 for text t1 and v2 for text t2.
Classifier(v1, v2) == [t \in Texts |-> IF t = "t1" THEN v1 ELSE v2]

LabelHi == <<"h", "i">>
LabelBye == <<"b", "-", "y">>
LabelNY == <<"n", "-", "y">>
LabelSJC == <<"s", "-", "j", "-", "c">>

\* The bank GenerateClassifier builds: two topics, two labels each; c gives
\* the four trained classifiers.
Bank(c) ==
    << [topic |-> "greetings",
        classifiers |-> << [label |-> LabelHi, classifier |-> c[1]],
                           [label |-> LabelBye, classifier |-> c[2]] >>],
       [topic |-> "locations",
        classifiers |-> << [label |-> LabelNY, classifier |-> c[3]],
                           [label |-> LabelSJC, classifier |-> c[4]] >>] >>

\* Every bank of that shape whose classifiers find nothing in text t2.
AllBanks == {Bank([i \in 1..4 |-> Classifier(v[i], NotPresent)]) : v \in [1..4 -> Verdicts]}

----------------------------------------------------------------------------
(* checkUsingClassifier and baseBotTextNLP *)

checkUsingClassifier(text, cls, label, topic) ==
    LET result == cls[text]
    IN  IF result.label = "false" THEN Null
        ELSE [label |-> replaceDash(label), topic |-> topic, value |-> result.value]

\* Lines 139-145: every classifier of every topic, nulls dropped, one flat list.
collectClassifications(text, bank) ==
    LET filtered ==
            [t \in 1..Len(bank) |->
                [array |-> TRUE,
                 v |-> compact([l \in 1..Len(bank[t].classifiers) |->
                          checkUsingClassifier(text, bank[t].classifiers[l].classifier,
                                               bank[t].classifiers[l].label, bank[t].topic)])]]
    IN  compact(flatten(filtered))

\* A floor that keeps a classification exactly at 0.6.
filterByFamilyInclusive(compacted, family) ==
    IF family = "LogisticRegressionClassifier"
    THEN SelectSeq(compacted, LAMBDA result : result.value >= Threshold)
    ELSE compacted

\* Lines 148-150: the floor applies to the logistic-regression family only.
filterByFamily(compacted, family) ==
    IF family = "LogisticRegressionClassifier"
    THEN SelectSeq(compacted, LAMBDA result : result.value > Threshold)
    ELSE compacted

\* Line 158: the title-cased labels of the classifications of topic 'locations';
\* _.compact drops the empty strings.
locationsOf(sorted) ==
    LET locs == SelectSeq(sorted, LAMBDA intent : intent.topic = "locations")
        names == [i \in 1..Len(locs) |-> startCase(locs[i].label)]
    IN  SelectSeq(names, LAMBDA name : name # <<>>)

\* Locations attached only to the intents of topic 'locations'.
baseIntentOwnTopicOnly(intent, locations) ==
    [action |-> Str(intent.label),
     details |-> [confidence |-> intent.value,
                  locations |-> IF intent.topic = "locations" THEN locations ELSE <<>>],
     topic |-> Str(intent.topic)]

\* Lines 160-177: one intent per classification.
baseIntent(intent, locations) ==
    [action |-> Str(intent.label),
     details |-> [confidence |-> intent.value, locations |-> locations],
     topic |-> Str(intent.topic)]

\* The value baseBotTextNLP returns: null, or (a promise of) the intents.
baseBotTextNLP(text, bank, family) ==
    LET compacted == filterByFamily(collectClassifications(text, bank), family)
        sorted == orderByValueDesc(compacted)
        locations == locationsOf(sorted)
    IN  IF Len(compacted) = 0 THEN [array |-> FALSE, v |-> Null]
        ELSE [array |-> TRUE,
              v |-> [i \in 1..Len(sorted) |-> baseIntent(sorted[i], locations)]]

----------------------------------------------------------------------------
(* defaultReducer, createEmptyIntent, createEmptyUser *)

unknownIntent == [action |-> Str(<<"n", "o", "n", "e">>), topic |-> Null]

\* intent.details, an absent details being undefined (no keys to give).
detailsOf(intent) == IF "details" \in DOMAIN intent THEN intent.details ELSE EmptyObject

\* A reducer that answers the empty intent when there is no candidate.
defaultReducerEmptyIntent(candidates) ==
    LET validIntents == compact(candidates)
    IN  IF Len(validIntents) = 0 THEN [action |-> Null, details |-> EmptyObject, topic |-> Null]
        ELSE [action |-> validIntents[1].action, topic |-> validIntents[1].topic,
              details |-> defaults([i \in 1..Len(validIntents) |->
                                       IF "details" \in DOMAIN validIntents[i]
                                       THEN validIntents[i].details ELSE EmptyObject])]

defaultReducer(candidates) ==
    LET validIntents == compact(candidates)
        mergedDetails == defaults([i \in 1..Len(validIntents) |-> detailsOf(validIntents[i])])
        firstIntent == validIntents[1]
    IN  IF Len(validIntents) = 0 THEN unknownIntent
        ELSE [action |-> firstIntent.action, topic |-> firstIntent.topic,
              details |-> mergedDetails]

createEmptyIntent == [action |-> Null, details |-> EmptyObject, topic |-> Null]

\* _.defaults(anEmptyUser, defaults): anEmptyUser is the destination.
createEmptyUser(userDefaults) ==
    LET anEmptyUser == [conversation |-> <<>>, intent |-> createEmptyIntent, state |-> "none"]
    IN  defaults(<<anEmptyUser, userDefaults>>)

----------------------------------------------------------------------------
(* The inputs of the pipeline *)

\* The two banks the pipeline runs on: the one built at construction and the
\* one a retrain builds.  Text t1 names a greeting and both places; t2 nothing
\* (first bank) or one place, at the floor and above it (second bank).
ConstructedBank ==
    Bank(<< Classifier([label |-> "true", value |-> 7], NotPresent),
            Classifier(NotPresent, NotPresent),
            Classifier([label |-> "true", value |-> 8], NotPresent),
            Classifier([label |-> "true", value |-> 6], NotPresent) >>)

RetrainedBank ==
    Bank(<< Classifier(NotPresent, NotPresent),
            Classifier([label |-> "true", value |-> 7], NotPresent),
            Classifier(NotPresent, [label |-> "true", value |-> 6]),
            Classifier(NotPresent, [label |-> "true", value |-> 7]) >>)

\* The functions a caller registers.
CustomIntents == {"customIntent", "otherIntent"}
SkillFunctions == {"skillA", "skillB", "skillC"}
\* Where registration is not what is studied, one function of each kind.
OneCustomIntent == {"customIntent"}
OneSkillFunction == {"skillA"}
BuiltInIntents == <<"baseBotTextNLP", "grabTopics">>

\* Candidates a registered extractor (or grabTopics, whose source is in
\* ./helpers) may produce.  They carry the extractor's name as their topic, so
\* that a candidate shows which extractor it came from.
CandidateOne(name) ==
    [action |-> Str(<<"o", "n", "e">>), topic |-> Str(name), details |-> [confidence |-> 7]]
CandidateTwo(name) ==
    [action |-> Str(<<"t", "w", "o">>), topic |-> Str(name), details |-> [source |-> name]]
CandidateThree(name) ==
    [action |-> Str(<<"t", "h", "r", "e", "e">>), topic |-> Str(name)]

\* What an IntentFunction's promise resolves with: null, one intent, or a list
\* of intents that may be empty or hold null entries.
ExtractorOutputs(name) ==
    { [array |-> FALSE, v |-> Null],
      [array |-> TRUE, v |-> <<>>],
      [array |-> TRUE, v |-> <<Null>>],
      [array |-> FALSE, v |-> CandidateThree(name)],
      [array |-> TRUE, v |-> <<CandidateOne(name), CandidateTwo(name)>>] }

\* The reducers a caller registers.
CustomReducers == {"customReducer", "otherReducer"}
OneCustomReducer == {"customReducer"}

\* What a registered reducer's promise resolves with: one of two intents, which
\* carry the reducer's name as their topic, so that an intent shows which
\* reducer it came from.
CustomReducerOutputs(name) ==
    {[action |-> Str(<<"r", "1">>), topic |-> Str(name)],
     [action |-> Str(<<"r", "2">>), topic |-> Str(name)]}

\* What a skill does when invoked: returns null, returns a non-null value that
\* is no promise, returns a promise (resolving to null, resolving to the user,
\* rejecting), or throws.
SkillResults == {"null", "user", "promiseNull", "promiseUser", "promiseReject", "throw"}

Pending == [pending |-> TRUE]
Rejected == [rejected |-> TRUE]

----------------------------------------------------------------------------
(* ChatBot: the steps of its methods *)

\* A registration that puts the function last.
unshiftAtEnd(list, f) == list \o <<f>>

\* Lines 56 and 61: [].concat(f, list).
unshift(list, f) == <<f>> \o list

setField(object, key, value) ==
    [k \in (DOMAIN object) \cup {key} |-> IF k = key THEN value ELSE object[k]]

\* An append that keeps no history: user.conversation = [text].
appendTextOverwrites(u, text) == setField(u, "conversation", <<text>>)

\* Lines 98-101: conversation is created when absent, then the text appended.
appendText(u, text) ==
    LET conversation == IF "conversation" \in DOMAIN u THEN u.conversation ELSE <<>>
    IN  setField(u, "conversation", conversation \o <<text>>)

\* An assignment that keeps an intent already decided.
assignIntentOnce(u, intent) ==
    IF u.intent.action = Null THEN setField(u, "intent", intent) ELSE u

\* Line 107.
assignIntent(u, intent) == setField(u, "intent", intent)

\* A walk that has no early return.
walkContinuesAlways(result) == TRUE

\* Line 110: the walk goes on after a result that is null, and only then.
walkContinues(result) == result = "null"

RECURSIVE walkSkills(_, _)
\* Lines 108-114: the invocations the loop can make from skill i on, each with
\* the value the skill returned.  A throw leaves the loop as a return does.
walkSkills(chain, i) ==
    IF i > Len(chain) THEN {<<>>}
    ELSE UNION { IF walkContinues(result)
                 THEN {<<[skill |-> chain[i], result |-> result]>> \o rest :
                          rest \in walkSkills(chain, i + 1)}
                 ELSE {<<[skill |-> chain[i], result |-> result]>>}
               : result \in SkillResults }

\* What a skill is given, as far as the pipeline made it: the conversation and
\* the intent of the user.
seenBy(u) == [conversation |-> u.conversation, intent |-> u.intent]

\* Every skill invoked marks the user it is given, under a key of its own
\* name: the mutation it makes in place, before it returns or throws.
markedBy(u, invoked) ==
    LET marks == {invoked[j].skill : j \in DOMAIN invoked}
    IN  [k \in (DOMAIN u) \cup marks |-> IF k \in marks THEN TRUE ELSE u[k]]

\* A callback that catches what a skill throws and goes on to return.
afterWalkSwallowsThrow(invoked) ==
    LET last == IF invoked = <<>> THEN "null" ELSE invoked[Len(invoked)].result
    IN  IF last \in {"null", "user", "throw"} THEN "returning" ELSE "awaiting"

\* Where the chain stands once the loop has returned or thrown: the callback
\* returned a value that is no promise, threw, or returned a promise the chain
\* now waits for.
afterWalk(invoked) ==
    LET last == IF invoked = <<>> THEN "null" ELSE invoked[Len(invoked)].result
    IN  CASE last \in {"null", "user"} -> "returning"
          [] last = "throw" -> "failing"
          [] OTHER -> "awaiting"

\* A processText call that has not been made, and the shape of every call:
\* its place in the promise chain and the values the chain's closures hold.
\* intentBefore (user.intent when the call was made), overtaken (whether some
\* extractor's value arrived while an extractor before it was still pending,
\* kept until the reducer has resolved), seen (the user as the skills were given it), skillsAtCall
\* (this.skills when the call was made, kept until the skills are walked) and
\* failure (the step the chain's rejection comes from) are history.
IdleRequest ==
    [pc |-> "idle", text |-> "", extractors |-> <<>>, results |-> <<>>,
     candidates |-> <<>>, reducer |-> "", intent |-> Null, chain |-> <<>>,
     invoked |-> <<>>, intentBefore |-> Null, overtaken |-> FALSE, seen |-> Null,
     skillsAtCall |-> <<>>, failure |-> "none"]

Requests == 1..MaxCalls

Settled(r) == reqs[r].pc \in {"resolved", "rejected"}

NoCall == [fn |-> "none"]

\* The user a caller starts with: the one createEmptyUser() makes, or an object
\* of the caller's own that has no conversation yet (the field is optional).
InitialUsers ==
    {createEmptyUser(EmptyObject), [state |-> "none", intent |-> createEmptyIntent]}

\* Lines 44-53: the constructor.  The pipeline runs on the logistic-regression
\* family; SpecNLP below draws both families.
Init ==
    /\ classifiers = ConstructedBank
    /\ classifier = "LogisticRegressionClassifier"
    /\ intents = BuiltInIntents
    /\ skills = <<>>
    /\ reducer = "defaultReducer"
    /\ user \in InitialUsers
    /\ reqs = [r \in Requests |-> IdleRequest]
    /\ registered = [intents |-> <<>>, skills |-> <<>>, reducer |-> "none"]
    /\ call = NoCall

\* Lines 55-58.
unshiftIntent(newIntent) ==
    /\ intents' = unshift(intents, newIntent)
    /\ registered' = [registered EXCEPT !.intents = Append(@, newIntent)]
    /\ UNCHANGED <<classifiers, classifier, skills, reducer, user, reqs, call>>

\* Lines 60-63.
unshiftSkill(newSkill) ==
    /\ skills' = unshift(skills, newSkill)
    /\ registered' = [registered EXCEPT !.skills = Append(@, newSkill)]
    /\ UNCHANGED <<classifiers, classifier, intents, reducer, user, reqs, call>>

\* A slot that can be filled once: a reducer set after the first is ignored.
setReducerOnce(newReducer) ==
    /\ reducer' = IF reducer = "defaultReducer" THEN newReducer ELSE reducer
    /\ registered' = [registered EXCEPT !.reducer = newReducer]
    /\ UNCHANGED <<classifiers, classifier, intents, skills, user, reqs, call>>

\* Lines 65-68.
setReducer(newReducer) ==
    /\ reducer' = newReducer
    /\ registered' = [registered EXCEPT !.reducer = newReducer]
    /\ UNCHANGED <<classifiers, classifier, intents, skills, user, reqs, call>>

\* What GenerateClassifier does with the sources it is given: it returns a bank
\* or throws on a bad source.
GenerateClassifierOutcomes ==
    {[thrown |-> FALSE, bank |-> ConstructedBank],
     [thrown |-> FALSE, bank |-> RetrainedBank],
     [thrown |-> TRUE, bank |-> <<>>]}

\* A retrain that replaces the bank in place, topic by topic, and is seen
\* after the first topic; one that fails has emptied the bank.
retrainClassifiersInPlace(built) ==
    /\ classifiers' = IF built.thrown THEN <<>>
                      ELSE <<built.bank[1]>> \o Tail(classifiers)
    /\ UNCHANGED <<classifier, intents, skills, reducer, user, reqs, registered, call>>

\* Lines 75-78: GenerateClassifier builds the whole bank before the assignment;
\* when it throws, the assignment is not reached.
retrainClassifiers(built) ==
    /\ classifiers' = IF built.thrown THEN classifiers ELSE built.bank
    /\ UNCHANGED <<classifier, intents, skills, reducer, user, reqs, registered, call>>

\* A caller that serializes its calls makes call r when every earlier call has
\* settled.
Serialized(r) == \A q \in 1..(r - 1) : Settled(q)

\* Lines 97-102, up to the call of Promise.map: the text is appended and the
\* extractors registered now are the ones Promise.map is given.  The calls are
\* numbered in the order they are made.
processText(r, text) ==
    /\ reqs[r].pc = "idle"
    /\ \A q \in 1..(r - 1) : reqs[q].pc # "idle"
    /\ user' = appendText(user, text)
    /\ reqs' = [reqs EXCEPT ![r] =
                   [IdleRequest EXCEPT !.pc = "called", !.text = text,
                                       !.extractors = intents,
                                       !.intentBefore = user.intent,
                                       !.skillsAtCall = skills]]
    /\ UNCHANGED <<classifiers, classifier, intents, skills, reducer, registered, call>>

\* A map that takes this.intents when it starts to call the extractors, not
\* when processText is called.
mapIntentsRegisteredNow(r) ==
    /\ reqs[r].pc = "called"
    /\ reqs' = [reqs EXCEPT ![r].pc = "extracting",
                            ![r].extractors = intents,
                            ![r].results =
                                [i \in 1..Len(intents) |->
                                    IF intents[i] = "baseBotTextNLP"
                                    THEN baseBotTextNLP(reqs[r].text, classifiers, classifier)
                                    ELSE Pending]]
    /\ UNCHANGED <<classifiers, classifier, intents, skills, reducer, user, registered, call>>

\* Line 102: Promise.map calls intent(text, user) for every extractor, in order.
\* baseBotTextNLP computes its value during the call, from the bank of that
\* moment; the other extractors return promises.
mapIntents(r) ==
    /\ reqs[r].pc = "called"
    /\ reqs' = [reqs EXCEPT ![r].pc = "extracting",
                            ![r].results =
                                [i \in 1..Len(reqs[r].extractors) |->
                                    IF reqs[r].extractors[i] = "baseBotTextNLP"
                                    THEN baseBotTextNLP(reqs[r].text, classifiers, classifier)
                                    ELSE Pending]]
    /\ UNCHANGED <<classifiers, classifier, intents, skills, reducer, user, registered, call>>

\* A join that collects the values in the order the promises resolve: the
\* value goes to the first free place.
storeResultInArrivalOrder(results, i, output) ==
    LET free == CHOOSE j \in DOMAIN results :
                    results[j] = Pending /\ \A k \in 1..(j - 1) : results[k] # Pending
    IN  [results EXCEPT ![free] = output]

\* Promise.map stores a resolved value at the index of its extractor.
storeResult(results, i, output) == [results EXCEPT ![i] = output]

\* An extractor's promise resolves.
extractorResolves(r, i, output) ==
    /\ reqs[r].pc = "extracting"
    /\ reqs[r].results[i] = Pending
    /\ reqs' = [reqs EXCEPT ![r].results = storeResult(@, i, output),
                            ![r].overtaken =
                                @ \/ \E j \in 1..(i - 1) : reqs[r].results[j] = Pending]
    /\ UNCHANGED <<classifiers, classifier, intents, skills, reducer, user, registered, call>>

\* An extractor's promise rejects: Promise.map rejects, and the chain skips its
\* remaining callbacks.
extractorRejects(r, i) ==
    /\ reqs[r].pc = "extracting"
    /\ reqs[r].results[i] = Pending
    /\ reqs' = [reqs EXCEPT ![r].pc = "failing", ![r].results[i] = Rejected,
                            ![r].failure = "extractor"]
    /\ UNCHANGED <<classifiers, classifier, intents, skills, reducer, user, registered, call>>

\* A race instead of a join: the chain goes on as soon as one extractor's value
\* is there, and takes the others as null.
callReducerAfterAny(r) ==
    /\ reqs[r].pc = "extracting"
    /\ \E i \in 1..Len(reqs[r].results) : reqs[r].results[i] # Pending
    /\ reqs' = [reqs EXCEPT ![r].pc = "reducing",
                            ![r].candidates =
                                compact(flatten([i \in 1..Len(reqs[r].results) |->
                                    IF reqs[r].results[i] = Pending
                                    THEN [array |-> FALSE, v |-> Null]
                                    ELSE reqs[r].results[i]])),
                            ![r].reducer = reducer]
    /\ UNCHANGED <<classifiers, classifier, intents, skills, reducer, user, registered, call>>

\* Lines 103-105: Promise.map has resolved with every extractor's value, in
\* extractor order; flatten, compact, and the call of this.reducer.
callReducer(r) ==
    /\ reqs[r].pc = "extracting"
    /\ \A i \in 1..Len(reqs[r].results) : reqs[r].results[i] # Pending
    /\ reqs' = [reqs EXCEPT ![r].pc = "reducing",
                            ![r].candidates = compact(flatten(reqs[r].results)),
                            ![r].reducer = reducer]
    /\ UNCHANGED <<classifiers, classifier, intents, skills, reducer, user, registered, call>>

\* What the reducer called resolves with.
ReducerOutputs(name, candidates) ==
    IF name = "defaultReducer" THEN {defaultReducer(candidates)} ELSE CustomReducerOutputs(name)

\* A callback that walks the skills first and assigns the intent afterwards.
walkThenAssign(r, intent, invoked) ==
    /\ reqs[r].pc = "reducing"
    /\ intent \in ReducerOutputs(reqs[r].reducer, reqs[r].candidates)
    /\ invoked \in walkSkills(skills, 1)
    /\ user' = assignIntent(markedBy(user, invoked), intent)
    /\ reqs' = [reqs EXCEPT ![r].pc = afterWalk(invoked), ![r].intent = intent,
                            ![r].chain = skills, ![r].invoked = invoked,
                            ![r].overtaken = FALSE, ![r].skillsAtCall = <<>>,
                            ![r].seen = IF invoked = <<>> THEN Null ELSE seenBy(user),
                            ![r].failure =
                                IF afterWalk(invoked) = "failing" THEN "skill" ELSE "none"]
    /\ UNCHANGED <<classifiers, classifier, intents, skills, reducer, registered, call>>

\* Lines 106-115: the reducer's promise has resolved; the intent is assigned and
\* the skills of this moment are walked, all in one callback.
walk(r, intent, invoked) ==
    /\ reqs[r].pc = "reducing"
    /\ intent \in ReducerOutputs(reqs[r].reducer, reqs[r].candidates)
    /\ invoked \in walkSkills(skills, 1)
    /\ user' = markedBy(assignIntent(user, intent), invoked)
    /\ reqs' = [reqs EXCEPT ![r].pc = afterWalk(invoked), ![r].intent = intent,
                            ![r].chain = skills, ![r].invoked = invoked,
                            ![r].overtaken = FALSE, ![r].skillsAtCall = <<>>,
                            ![r].seen = IF invoked = <<>> THEN Null
                                        ELSE seenBy(assignIntent(user, intent)),
                            ![r].failure =
                                IF afterWalk(invoked) = "failing" THEN "skill" ELSE "none"]
    /\ UNCHANGED <<classifiers, classifier, intents, skills, reducer, registered, call>>

\* The reducer's promise rejects.
reducerRejects(r) ==
    /\ reqs[r].pc = "reducing"
    /\ reqs[r].reducer # "defaultReducer"
    /\ reqs' = [reqs EXCEPT ![r].pc = "failing", ![r].failure = "reducer"]
    /\ UNCHANGED <<classifiers, classifier, intents, skills, reducer, user, registered, call>>

\* Line 111: the promise the last skill returned settles.
skillSettles(r) ==
    /\ reqs[r].pc = "awaiting"
    /\ reqs' = [reqs EXCEPT ![r] =
                   IF reqs[r].invoked[Len(reqs[r].invoked)].result = "promiseReject"
                   THEN [@ EXCEPT !.pc = "failing", !.failure = "skill"]
                   ELSE [@ EXCEPT !.pc = "returning"]]
    /\ UNCHANGED <<classifiers, classifier, intents, skills, reducer, user, registered, call>>

\* A chain that ends in a handler for both outcomes: the promise resolves
\* with the user whatever happened before.
settleSwallowsFailure(r) ==
    /\ reqs[r].pc \in {"returning", "failing"}
    /\ reqs' = [reqs EXCEPT ![r] =
                   [IdleRequest EXCEPT !.pc = "resolved", !.text = reqs[r].text,
                                       !.intent = reqs[r].intent,
                                       !.intentBefore = reqs[r].intentBefore,
                                       !.failure = reqs[r].failure]]
    /\ UNCHANGED <<classifiers, classifier, intents, skills, reducer, user, registered, call>>

\* Line 116: the promise processText returned settles, with the user or with
\* the failure; the chain's closures are dropped.
settle(r) ==
    /\ reqs[r].pc \in {"returning", "failing"}
    /\ reqs' = [reqs EXCEPT ![r] =
                   IF reqs[r].pc = "returning"
                   THEN [IdleRequest EXCEPT !.pc = "resolved", !.text = reqs[r].text,
                                            !.intent = reqs[r].intent]
                   ELSE [IdleRequest EXCEPT !.pc = "rejected", !.text = reqs[r].text,
                                            !.intent = reqs[r].intent,
                                            !.intentBefore = reqs[r].intentBefore,
                                            !.failure = reqs[r].failure]]
    /\ UNCHANGED <<classifiers, classifier, intents, skills, reducer, user, registered, call>>

----------------------------------------------------------------------------
(* Spec: one request, with every configuration call interleaved.           *)

Next ==
    \/ \E newIntent \in OneCustomIntent :
          Len(registered.intents) < MaxUnshiftIntent /\ unshiftIntent(newIntent)
    \/ \E newSkill \in OneSkillFunction :
          Len(registered.skills) < MaxUnshiftSkillElsewhere /\ unshiftSkill(newSkill)
    \/ \E newReducer \in OneCustomReducer : setReducer(newReducer)
    \/ \E built \in GenerateClassifierOutcomes : retrainClassifiers(built)
    \/ \E text \in Texts : processText(1, text)
    \/ \E r \in Requests : mapIntents(r)
    \/ \E r \in Requests :
          \E i \in DOMAIN reqs[r].results :
             \E output \in ExtractorOutputs(reqs[r].extractors[i]) :
                extractorResolves(r, i, output)
    \/ \E r \in Requests : \E i \in DOMAIN reqs[r].results : extractorRejects(r, i)
    \/ \E r \in Requests : callReducer(r)
    \/ \E r \in Requests :
          \E intent \in ReducerOutputs(reqs[r].reducer, reqs[r].candidates),
             invoked \in walkSkills(skills, 1) : walk(r, intent, invoked)
    \/ \E r \in Requests : reducerRejects(r)
    \/ \E r \in Requests : skillSettles(r)
    \/ \E r \in Requests : settle(r)

Spec == Init /\ [][Next]_vars

----------------------------------------------------------------------------
(* SpecSkills: one request on the built-in extractors, with up to          *)
(* MaxUnshiftSkill skills registered before or during it.                  *)

NextSkills ==
    \/ \E newSkill \in SkillFunctions :
          Len(registered.skills) < MaxUnshiftSkill /\ unshiftSkill(newSkill)
    \/ \E text \in Texts : processText(1, text)
    \/ \E r \in Requests : mapIntents(r)
    \/ \E r \in Requests :
          \E i \in DOMAIN reqs[r].results :
             \E output \in {[array |-> FALSE, v |-> Null],
                             [array |-> FALSE, v |-> CandidateThree(reqs[r].extractors[i])]} :
                extractorResolves(r, i, output)
    \/ \E r \in Requests : callReducer(r)
    \/ \E r \in Requests :
          \E intent \in ReducerOutputs(reqs[r].reducer, reqs[r].candidates),
             invoked \in walkSkills(skills, 1) : walk(r, intent, invoked)
    \/ \E r \in Requests : skillSettles(r)
    \/ \E r \in Requests : settle(r)

SpecSkills == Init /\ [][NextSkills]_vars

----------------------------------------------------------------------------
(* SpecSerial: a caller that issues MaxCalls requests, one after the other. *)
(* grabTopics answers null or a list of two candidates.                    *)

NextSerial ==
    \/ \E newSkill \in OneSkillFunction :
          Len(registered.skills) < MaxUnshiftSkillElsewhere /\ unshiftSkill(newSkill)
    \/ \E newReducer \in OneCustomReducer : setReducer(newReducer)
    \/ \E r \in Requests, text \in Texts : Serialized(r) /\ processText(r, text)
    \/ \E r \in Requests : mapIntents(r)
    \/ \E r \in Requests :
          \E i \in DOMAIN reqs[r].results :
             \E output \in {[array |-> FALSE, v |-> Null],
                             [array |-> TRUE,
                              v |-> <<CandidateOne(reqs[r].extractors[i]),
                                      CandidateTwo(reqs[r].extractors[i])>>]} :
                extractorResolves(r, i, output)
    \/ \E r \in Requests : \E i \in DOMAIN reqs[r].results : extractorRejects(r, i)
    \/ \E r \in Requests : callReducer(r)
    \/ \E r \in Requests :
          \E intent \in ReducerOutputs(reqs[r].reducer, reqs[r].candidates),
             invoked \in walkSkills(skills, 1) : walk(r, intent, invoked)
    \/ \E r \in Requests : reducerRejects(r)
    \/ \E r \in Requests : skillSettles(r)
    \/ \E r \in Requests : settle(r)

SpecSerial == Init /\ [][NextSerial]_vars

----------------------------------------------------------------------------
(* SpecReducer: serialized requests on the built-in extractors, with any   *)
(* sequence of setReducer calls before, between and during them.           *)

NextReducer ==
    \/ \E newReducer \in CustomReducers : setReducer(newReducer)
    \/ \E r \in Requests, text \in Texts : Serialized(r) /\ processText(r, text)
    \/ \E r \in Requests : mapIntents(r)
    \/ \E r \in Requests :
          \E i \in DOMAIN reqs[r].results :
             \E output \in {[array |-> TRUE, v |-> <<Null>>],
                             [array |-> TRUE,
                              v |-> <<CandidateOne(reqs[r].extractors[i]),
                                      CandidateTwo(reqs[r].extractors[i])>>]} :
                extractorResolves(r, i, output)
    \/ \E r \in Requests : callReducer(r)
    \/ \E r \in Requests :
          \E intent \in ReducerOutputs(reqs[r].reducer, reqs[r].candidates),
             invoked \in walkSkills(skills, 1) : walk(r, intent, invoked)
    \/ \E r \in Requests : reducerRejects(r)
    \/ \E r \in Requests : settle(r)

SpecReducer == Init /\ [][NextReducer]_vars

----------------------------------------------------------------------------
(* SpecOverlap: a caller that does not wait: up to MaxOverlap calls on the *)
(* same user, each made while the earlier ones may still be in flight.     *)
(* The caller alternates the two texts and registers one skill, at any     *)
(* moment.                                                                 *)

TextOfCall(r) == IF r % 2 = 1 THEN "t1" ELSE "t2"

NextOverlap ==
    \/ \E newSkill \in OneSkillFunction :
          registered.skills = <<>> /\ unshiftSkill(newSkill)
    \/ \E r \in 1..MaxOverlap : processText(r, TextOfCall(r))
    \/ \E r \in Requests : mapIntents(r)
    \/ \E r \in Requests :
          \E i \in DOMAIN reqs[r].results :
             \E output \in {[array |-> FALSE, v |-> Null],
                             [array |-> FALSE, v |-> CandidateThree(reqs[r].extractors[i])]} :
                extractorResolves(r, i, output)
    \/ \E r \in Requests : callReducer(r)
    \/ \E r \in Requests :
          \E intent \in ReducerOutputs(reqs[r].reducer, reqs[r].candidates),
             invoked \in walkSkills(skills, 1) : walk(r, intent, invoked)
    \/ \E r \in Requests : skillSettles(r)
    \/ \E r \in Requests : settle(r)

SpecOverlap == Init /\ [][NextOverlap]_vars

----------------------------------------------------------------------------
(* SpecInFlight: serialized requests, with registrations made only while a *)
(* request is in flight and not yet reduced: after its call and before its *)
(* reducer has resolved.                                                   *)

InFlight == \E r \in Requests : reqs[r].pc \in {"called", "extracting", "reducing"}

NextInFlight ==
    \/ \E newIntent \in OneCustomIntent :
          /\ InFlight
          /\ Len(registered.intents) < MaxUnshiftIntent
          /\ unshiftIntent(newIntent)
    \/ \E newSkill \in OneSkillFunction :
          /\ InFlight
          /\ Len(registered.skills) < MaxUnshiftSkillElsewhere
          /\ unshiftSkill(newSkill)
    \/ \E r \in Requests : Serialized(r) /\ processText(r, TextOfCall(r))
    \/ \E r \in Requests : mapIntents(r)
    \/ \E r \in Requests :
          \E i \in DOMAIN reqs[r].results :
             \E output \in {[array |-> FALSE, v |-> Null],
                             [array |-> FALSE, v |-> CandidateThree(reqs[r].extractors[i])]} :
                extractorResolves(r, i, output)
    \/ \E r \in Requests : callReducer(r)
    \/ \E r \in Requests :
          \E intent \in ReducerOutputs(reqs[r].reducer, reqs[r].candidates),
             invoked \in walkSkills(skills, 1) : walk(r, intent, invoked)
    \/ \E r \in Requests : skillSettles(r)
    \/ \E r \in Requests : settle(r)

SpecInFlight == Init /\ [][NextInFlight]_vars

----------------------------------------------------------------------------
(* SpecRegister: any sequence of registrations, no request.                *)

NextRegister ==
    \/ \E newIntent \in CustomIntents :
          Len(registered.intents) < MaxRegistrations /\ unshiftIntent(newIntent)
    \/ \E newSkill \in SkillFunctions :
          Len(registered.skills) < MaxRegistrations /\ unshiftSkill(newSkill)

SpecRegister == Init /\ [][NextRegister]_vars

----------------------------------------------------------------------------
(* SpecNLP: baseBotTextNLP called on a text, for every bank of AllBanks    *)
(* and both classifier families.                                           *)

InitNLP ==
    /\ classifiers \in AllBanks
    /\ classifier \in ClassifierFamilies
    /\ intents = BuiltInIntents
    /\ skills = <<>>
    /\ reducer = "defaultReducer"
    /\ user = createEmptyUser(EmptyObject)
    /\ reqs = [r \in Requests |-> IdleRequest]
    /\ registered = [intents |-> <<>>, skills |-> <<>>, reducer |-> "none"]
    /\ call = NoCall

callBaseBotTextNLP(text) ==
    /\ call' = [fn |-> "baseBotTextNLP", text |-> text,
                out |-> baseBotTextNLP(text, classifiers, classifier)]
    /\ UNCHANGED <<classifiers, classifier, intents, skills, reducer, user, reqs, registered>>

NextNLP == call = NoCall /\ \E text \in Texts : callBaseBotTextNLP(text)

SpecNLP == InitNLP /\ [][NextNLP]_vars

----------------------------------------------------------------------------
(* SpecFn: defaultReducer and createEmptyUser called directly.             *)

DetailKeys == {"confidence", "source"}
DetailValues == {1, 2}

\* Every details object over DetailKeys.
DetailsInputs == UNION {[keys -> DetailValues] : keys \in SUBSET DetailKeys}

\* The candidates handed to the reducer: null, an intent without details, an
\* intent with details.
CandidateInputs ==
    {Null}
    \cup {[action |-> Str(<<a>>), topic |-> Str("topic")] : a \in {"a", "b"}}
    \cup {[action |-> Str(<<a>>), topic |-> Str("topic"), details |-> d] :
             a \in {"a", "b"}, d \in DetailsInputs}

CandidateLists == UNION {[1..n -> CandidateInputs] : n \in 0..MaxCands}

\* The defaults a caller hands to createEmptyUser: any of the three built-in
\* keys, and a key of the caller's own.
UserDefaultsFull ==
    [conversation |-> <<"hello">>, intent |-> unknownIntent, state |-> "active", name |-> "ann"]

UserDefaultsInputs ==
    {[k \in keys |-> UserDefaultsFull[k]] : keys \in SUBSET DOMAIN UserDefaultsFull}

callDefaultReducer(candidates) ==
    /\ call' = [fn |-> "defaultReducer", candidates |-> candidates,
                out |-> defaultReducer(candidates)]
    /\ UNCHANGED <<classifiers, classifier, intents, skills, reducer, user, reqs, registered>>

callCreateEmptyUser(userDefaults) ==
    /\ call' = [fn |-> "createEmptyUser", defaults |-> userDefaults,
                out |-> createEmptyUser(userDefaults)]
    /\ UNCHANGED <<classifiers, classifier, intents, skills, reducer, user, reqs, registered>>

NextFn ==
    \/ call = NoCall /\ \E candidates \in CandidateLists : callDefaultReducer(candidates)
    \/ call = NoCall /\ \E userDefaults \in UserDefaultsInputs : callCreateEmptyUser(userDefaults)

SpecFn == Init /\ [][NextFn]_vars

----------------------------------------------------------------------------
(* The claims *)

Reverse(list) == [i \in 1..Len(list) |-> list[Len(list) + 1 - i]]

\* C1: in every processText run the skills are invoked in execution order,
\* from the first on, and a skill whose result is not null is the last one
\* invoked: no skill after it in execution order is invoked.
C1_WalkStopsAtFirstNonNull ==
    \A r \in Requests :
        LET invoked == reqs[r].invoked
            chain == reqs[r].chain
        IN  /\ Len(invoked) <= Len(chain)
            /\ \A j \in 1..Len(invoked) : invoked[j].skill = chain[j]
            /\ \A j \in 1..Len(invoked) : invoked[j].result # "null" => j = Len(invoked)

\* C1's case: three skills, the first returns null, the second a user, and the
\* third is not invoked.
C1_Witness ==
    \E r \in Requests :
        /\ Len(reqs[r].chain) = 3
        /\ Len(reqs[r].invoked) = 2
        /\ reqs[r].invoked[1].result = "null"
        /\ reqs[r].invoked[2].result = "user"
        /\ reqs[r].pc = "returning"

\* C2: a skill that declines, by returning null or by returning a promise that
\* resolves to null, is followed by the next skill in execution order; when
\* every skill declines, every skill of the chain is invoked once, in order,
\* and the request does not fail.
C2_DeclineContinuesWalk ==
    \A r \in Requests :
        LET invoked == reqs[r].invoked
            chain == reqs[r].chain
            declines(j) == invoked[j].result \in {"null", "promiseNull"}
        IN  /\ \A j \in 1..Len(invoked) :
                  (declines(j) /\ j < Len(chain)) => Len(invoked) > j
            /\ (\A j \in 1..Len(invoked) : declines(j)) =>
                  /\ Len(invoked) = Len(chain)
                  /\ \A j \in 1..Len(invoked) : invoked[j].skill = chain[j]
                  /\ reqs[r].pc # "failing"

\* C3: after any sequence of unshiftIntent and unshiftSkill calls each list is
\* in reverse registration order, the built-in extractors last and in their
\* original order.
C3_ReverseRegistrationOrder ==
    /\ intents = Reverse(registered.intents) \o <<"baseBotTextNLP", "grabTopics">>
    /\ skills = Reverse(registered.skills)

\* C3's case: three different functions registered in each list.
C3_Witness ==
    /\ registered.intents = <<"customIntent", "otherIntent", "customIntent">>
    /\ registered.skills = <<"skillA", "skillB", "skillC">>

\* C4: for serialized calls on one user, once the k-th call has resolved (and
\* no later call has been made) user.conversation is the texts of calls 1..k,
\* each once and in call order, and user.intent is the intent the reducer
\* produced for call k.
C4_SerialCallsAccumulate ==
    \A k \in Requests :
        (reqs[k].pc = "resolved" /\ \A j \in (k + 1)..MaxCalls : reqs[j].pc = "idle") =>
            /\ "conversation" \in DOMAIN user
            /\ user.conversation = [j \in 1..k |-> reqs[j].text]
            /\ user.intent = reqs[k].intent

\* C4's case: two resolved calls with different texts, the first reduced to
\* a location intent and the second to the unknown intent.
C4_Witness ==
    /\ reqs[1].pc = "resolved"
    /\ reqs[2].pc = "resolved"
    /\ reqs[1].text = "t1"
    /\ reqs[2].text = "t2"
    /\ reqs[1].intent.topic = Str("locations")
    /\ reqs[2].intent.topic = Null
    /\ user.conversation = <<"t1", "t2">>

\* An extractor's value that holds no candidate: null, an empty list, or a
\* list of nulls only.
YieldsNoCandidate(output) ==
    IF output.array THEN \A n \in DOMAIN output.v : output.v[n] = Null
    ELSE output.v = Null

NoCandidate(r) ==
    \A i \in DOMAIN reqs[r].results :
        reqs[r].results[i] \notin {Pending, Rejected} /\ YieldsNoCandidate(reqs[r].results[i])

\* C5: when no extractor yields a candidate, the default reducer resolves with
\* the unknown intent {action:'none', topic:null} (it does not fail), that
\* intent is assigned, and the request resolves with user.intent equal to it.
C5_NoCandidateResolvesUnknown ==
    [][\A r \in Requests :
          (reqs[r].reducer = "defaultReducer" /\ NoCandidate(r)) =>
              /\ (reqs[r].pc = "reducing" /\ reqs'[r].pc # "reducing") =>
                    /\ reqs'[r].intent = [action |-> Str(<<"n", "o", "n", "e">>), topic |-> Null]
                    /\ user'.intent = reqs'[r].intent
              /\ (reqs[r].pc = "returning" /\ reqs'[r].pc # "returning") =>
                    /\ reqs'[r].pc = "resolved"
                    /\ user'.intent = [action |-> Str(<<"n", "o", "n", "e">>), topic |-> Null]
      ]_vars

\* C5's case: three extractors answered null, an empty list and a list of
\* nulls, and the request is about to resolve with the unknown intent.
C5_Witness ==
    \E r \in Requests :
        /\ reqs[r].pc = "returning"
        /\ reqs[r].reducer = "defaultReducer"
        /\ NoCandidate(r)
        /\ \E i \in DOMAIN reqs[r].results : reqs[r].results[i] = [array |-> TRUE, v |-> <<>>]
        /\ \E i \in DOMAIN reqs[r].results : reqs[r].results[i] = [array |-> TRUE, v |-> <<Null>>]
        /\ \E i \in DOMAIN reqs[r].results : reqs[r].results[i] = [array |-> FALSE, v |-> Null]
        /\ user.intent.topic = Null

\* The candidates of one extractor's value, in its own order.
CandidatesOf(output) ==
    IF output.array THEN SelectSeq(output.v, LAMBDA x : x # Null)
    ELSE IF output.v = Null THEN <<>> ELSE <<output.v>>

\* C6: the intent the default reducer chooses has the action and topic of the
\* first candidate of the first extractor, in execution order, that produced
\* a candidate; that candidate is one this extractor produced, in whatever
\* order the extractors resolved.
C6_WinnerIsFirstCandidate ==
    \A r \in Requests :
        (/\ reqs[r].pc \in {"returning", "awaiting", "failing"}
         /\ reqs[r].intent # Null
         /\ reqs[r].reducer = "defaultReducer"
         /\ ~NoCandidate(r)) =>
            LET results == reqs[r].results
                first == CHOOSE i \in DOMAIN results :
                            /\ CandidatesOf(results[i]) # <<>>
                            /\ \A j \in 1..(i - 1) : CandidatesOf(results[j]) = <<>>
                winner == CandidatesOf(results[first])[1]
            IN  /\ reqs[r].intent.action = winner.action
                /\ reqs[r].intent.topic = winner.topic
                /\ user.intent.action = winner.action
                /\ user.intent.topic = winner.topic
                /\ reqs[r].extractors[first] # "baseBotTextNLP" =>
                      winner.topic = Str(reqs[r].extractors[first])

\* C6's case: the first extractor gave a list of nulls, baseBotTextNLP nothing,
\* and grabTopics, the last one, a list of two candidates: its first wins.
C6_Witness ==
    \E r \in Requests :
        /\ reqs[r].pc = "returning"
        /\ reqs[r].reducer = "defaultReducer"
        /\ reqs[r].extractors = <<"customIntent", "baseBotTextNLP", "grabTopics">>
        /\ reqs[r].results[1] = [array |-> TRUE, v |-> <<Null>>]
        /\ reqs[r].results[2] = [array |-> FALSE, v |-> Null]
        /\ reqs[r].results[3] = [array |-> TRUE,
                                 v |-> <<CandidateOne("grabTopics"), CandidateTwo("grabTopics")>>]
        /\ user.intent.action = Str(<<"o", "n", "e">>)
        /\ user.intent.topic = Str("grabTopics")

\* The details of a candidate, none when the candidate has no details.
DetailsIn(candidate) ==
    IF "details" \in DOMAIN candidate THEN candidate.details ELSE [k \in {} |-> 0]

\* C7: in defaultReducer every key of the winner's details keeps the winner's
\* value; the result's details hold, besides, exactly the keys that the winner
\* lacks and some later candidate has, each with the value of the earliest
\* candidate in list order that has it.
C7_MergeKeepsWinnerDetails ==
    (call.fn = "defaultReducer" /\ \E n \in DOMAIN call.candidates : call.candidates[n] # Null) =>
        LET valid == SelectSeq(call.candidates, LAMBDA x : x # Null)
            winner == DetailsIn(valid[1])
            merged == call.out.details
        IN  /\ \A k \in DOMAIN winner : k \in DOMAIN merged /\ merged[k] = winner[k]
            /\ DOMAIN merged = UNION {DOMAIN DetailsIn(valid[n]) : n \in DOMAIN valid}
            /\ \A k \in (DOMAIN merged) \ (DOMAIN winner) :
                  LET earliest == CHOOSE n \in DOMAIN valid :
                                     /\ k \in DOMAIN DetailsIn(valid[n])
                                     /\ \A m \in 1..(n - 1) : k \notin DOMAIN DetailsIn(valid[m])
                  IN  merged[k] = DetailsIn(valid[earliest])[k]

\* C7's case: the winner has confidence 1; the second candidate has another
\* confidence and a source, the third another source: the result keeps the
\* winner's confidence and takes the second candidate's source.
C7_Witness ==
    /\ call.fn = "defaultReducer"
    /\ call.candidates =
          << [action |-> Str(<<"a">>), topic |-> Str("topic"), details |-> [confidence |-> 1]],
             [action |-> Str(<<"b">>), topic |-> Str("topic"),
              details |-> [confidence |-> 2, source |-> 1]],
             [action |-> Str(<<"b">>), topic |-> Str("topic"), details |-> [source |-> 2]] >>
    /\ call.out.details = [confidence |-> 1, source |-> 1]

\* C8: createEmptyUser(defaults) gives every key the caller specifies the
\* caller's value, and every built-in key the caller omits its built-in value
\* (conversation [], the empty intent, state 'none').
C8_CallerDefaultsOverride ==
    call.fn = "createEmptyUser" =>
        /\ \A k \in DOMAIN call.defaults :
              k \in DOMAIN call.out /\ call.out[k] = call.defaults[k]
        /\ "conversation" \notin DOMAIN call.defaults => call.out.conversation = <<>>
        /\ "intent" \notin DOMAIN call.defaults =>
              call.out.intent = [action |-> Null, details |-> [k \in {} |-> 0], topic |-> Null]
        /\ "state" \notin DOMAIN call.defaults => call.out.state = "none"

\* The classifications of the called text that are not 'false', as places
\* <<topic index, label index>> of the bank, and the value of each.
Found ==
    {e \in UNION {{<<t, l>> : l \in DOMAIN classifiers[t].classifiers} : t \in DOMAIN classifiers} :
        classifiers[e[1]].classifiers[e[2]].classifier[call.text].label # "false"}

ValueAt(e) == classifiers[e[1]].classifiers[e[2]].classifier[call.text].value

\* C9: with the logistic-regression family no intent of baseBotTextNLP has a
\* confidence at or below 0.6 (6 tenths), and when no classification other
\* than 'false' is above 0.6 the extractor returns null.
C9_FloorDropsLowConfidence ==
    (call.fn = "baseBotTextNLP" /\ classifier = "LogisticRegressionClassifier") =>
        /\ call.out.array =>
              \A i \in DOMAIN call.out.v : call.out.v[i].details.confidence > 6
        /\ (\A e \in Found : ValueAt(e) <= 6) => call.out = [array |-> FALSE, v |-> Null]

\* C9's case: the only classifications found are at the floor or below it, one
\* exactly at 0.6, and the extractor returned null.
C9_Witness ==
    /\ call.fn = "baseBotTextNLP"
    /\ classifier = "LogisticRegressionClassifier"
    /\ \E e \in Found : ValueAt(e) = 6
    /\ \E e \in Found : ValueAt(e) = 5
    /\ \A e \in Found : ValueAt(e) <= 6
    /\ call.out = [array |-> FALSE, v |-> Null]

\* Whether a classification is among those the intents are made from.
Survives(e) ==
    e \in Found /\ (classifier = "LogisticRegressionClassifier" => ValueAt(e) > 6)

\* The places of the bank's topic 'locations': n-y and s-j-c, and the title
\* case of each label.
PlaceNY == <<2, 1>>
PlaceSJC == <<2, 2>>
TitleNY == <<"N", " ", "Y">>
TitleSJC == <<"S", " ", "J", " ", "C">>

\* The location lists the claim allows: the surviving places, larger
\* confidence first.
ExpectedLocations ==
    IF Survives(PlaceNY) /\ Survives(PlaceSJC)
    THEN (IF ValueAt(PlaceNY) >= ValueAt(PlaceSJC) THEN {<<TitleNY, TitleSJC>>} ELSE {})
         \cup (IF ValueAt(PlaceSJC) >= ValueAt(PlaceNY) THEN {<<TitleSJC, TitleNY>>} ELSE {})
    ELSE IF Survives(PlaceNY) THEN {<<TitleNY>>}
    ELSE IF Survives(PlaceSJC) THEN {<<TitleSJC>>}
    ELSE {<<>>}

\* C10: every intent of one baseBotTextNLP run carries the same
\* details.locations: the title-cased labels of the surviving classifications
\* of topic 'locations', larger confidence first, whatever the intent's topic.
C10_LocationsOnEveryIntent ==
    (call.fn = "baseBotTextNLP" /\ call.out.array) =>
        /\ classifiers[2].topic = "locations"
        /\ \A i \in DOMAIN call.out.v :
              /\ call.out.v[i].details.locations \in ExpectedLocations
              /\ call.out.v[i].details.locations = call.out.v[1].details.locations

\* C10's case: a greeting and both places survive, s-j-c above n-y, and the
\* greeting's intent carries both places in that order.
C10_Witness ==
    /\ call.fn = "baseBotTextNLP"
    /\ call.out.array
    /\ Len(call.out.v) = 3
    /\ \E i \in DOMAIN call.out.v :
          /\ call.out.v[i].topic = Str("greetings")
          /\ call.out.v[i].details.locations = <<TitleSJC, TitleNY>>

\* The texts of the calls made so far, in call order.
TextsUpTo(k) == [j \in 1..k |-> reqs[j].text]

\* Whether call k is the latest call made.
Latest(k) == reqs[k].pc # "idle" /\ \A j \in (k + 1)..MaxCalls : reqs[j].pc = "idle"

\* C11: a call in which an extractor or the reducer failed is rejecting or
\* rejected, with that failure; it assigned no intent and invoked no skill;
\* and until the next call is made user.intent is the value it had when the
\* call was made, while user.conversation ends with the call's text.
C11_ExtractionOrReductionFailureAborts ==
    \A r \in Requests :
        reqs[r].failure \in {"extractor", "reducer"} =>
            /\ reqs[r].pc \in {"failing", "rejected"}
            /\ reqs[r].intent = Null
            /\ reqs[r].invoked = <<>>
            /\ Latest(r) =>
                  /\ user.intent = reqs[r].intentBefore
                  /\ user.conversation = TextsUpTo(r)

\* C11's case: the first call resolved with a location intent; in the second
\* the reducer failed: the call is rejected, the user keeps the first call's
\* intent and both texts.
C11_Witness ==
    /\ reqs[1].pc = "resolved"
    /\ reqs[2].pc = "rejected"
    /\ reqs[2].failure = "reducer"
    /\ reqs[1].intent.topic = Str("locations")
    /\ user.intent = reqs[1].intent
    /\ user.conversation = <<reqs[1].text, reqs[2].text>>

\* C12: a skill that throws, or whose promise rejects, is the last skill
\* invoked in its run: the skills before it in execution order were invoked,
\* none after it was; the call rejects with the skill's failure (after the
\* promise has rejected, in the second case); and the marks that the invoked
\* skills left on the user, with the intent assigned before the walk, stay,
\* also once the call is rejected.
C12_SkillFailureAborts ==
    \A r \in Requests :
        LET invoked == reqs[r].invoked
            chain == reqs[r].chain
            failed(j) == invoked[j].result \in {"throw", "promiseReject"}
        IN  /\ (\E j \in DOMAIN invoked : failed(j)) =>
                  /\ \A j \in DOMAIN invoked : failed(j) => j = Len(invoked)
                  /\ Len(invoked) <= Len(chain)
                  /\ \A j \in DOMAIN invoked : invoked[j].skill = chain[j]
                  /\ reqs[r].pc \in {"awaiting", "failing"}
                  /\ reqs[r].pc = "awaiting" => invoked[Len(invoked)].result = "promiseReject"
                  /\ reqs[r].pc = "failing" => reqs[r].failure = "skill"
                  /\ Latest(r) =>
                        /\ \A j \in DOMAIN invoked :
                              invoked[j].skill \in DOMAIN user /\ user[invoked[j].skill]
                        /\ \A j \in (Len(invoked) + 1)..Len(chain) :
                              chain[j] \in DOMAIN user =>
                                  \E i \in DOMAIN invoked : invoked[i].skill = chain[j]
            /\ reqs[r].failure = "skill" =>
                  /\ reqs[r].pc \in {"failing", "rejected"}
                  /\ reqs[r].intent # Null
                  /\ Latest(r) =>
                        /\ user.intent = reqs[r].intent
                        /\ \E f \in SkillFunctions : f \in DOMAIN user

\* C12's case: of three different skills the first returned null and the
\* second threw; the call is rejecting and the user carries the marks of the
\* first two skills and not of the third.
C12_Witness ==
    \E r \in Requests :
        /\ reqs[r].pc = "failing"
        /\ reqs[r].failure = "skill"
        /\ Len(reqs[r].chain) = 3
        /\ Len(reqs[r].invoked) = 2
        /\ reqs[r].invoked[1].result = "null"
        /\ reqs[r].invoked[2].result = "throw"
        /\ reqs[r].chain[3] \notin {reqs[r].chain[1], reqs[r].chain[2]}
        /\ reqs[r].chain[1] \in DOMAIN user
        /\ reqs[r].chain[2] \in DOMAIN user
        /\ reqs[r].chain[3] \notin DOMAIN user

\* C12's other case: the only skill returned a promise, the promise rejected,
\* and the call is rejected.
C12_WitnessPromise ==
    \E r \in Requests :
        /\ reqs[r].pc = "rejected"
        /\ reqs[r].failure = "skill"
        /\ user.intent = reqs[r].intent
        /\ \E f \in SkillFunctions : f \in DOMAIN user

RECURSIVE CandidatesOfAll(_)
\* The candidates of every extractor's value, in extractor order.
CandidatesOfAll(results) ==
    IF results = <<>> THEN <<>>
    ELSE CandidatesOf(Head(results)) \o CandidatesOfAll(Tail(results))

\* C13: the reducer a request invokes is the function passed to the last
\* setReducer call made before the reduction (so, for a request called after
\* setReducer(r) and reduced before any other setReducer, r), and never the
\* default reducer or a reducer set before that one; it is invoked once, with
\* the null-free list of every extractor's candidates in extractor order; and
\* the intent it resolves with is the one assigned to user.intent.
C13_SetReducerReplaces ==
    [][\A r \in Requests :
          /\ (reqs[r].pc = "extracting" /\ reqs'[r].pc = "reducing") =>
                /\ registered.reducer # "none" => reqs'[r].reducer = registered.reducer
                /\ registered.reducer = "none" => reqs'[r].reducer = "defaultReducer"
                /\ reqs'[r].candidates = CandidatesOfAll(reqs[r].results)
          /\ (reqs[r].pc = "reducing" /\ reqs'[r].pc \in {"reducing", "returning", "awaiting"}) =>
                reqs'[r].reducer = reqs[r].reducer
          /\ (reqs[r].pc = "reducing" /\ reqs'[r].pc \in {"returning", "awaiting"}) =>
                /\ user'.intent = reqs'[r].intent
                /\ reqs[r].reducer \in CustomReducers =>
                      reqs'[r].intent \in
                          {[action |-> Str(<<"r", n>>), topic |-> Str(reqs[r].reducer)] :
                              n \in {"1", "2"}}
      ]_vars

\* C13's case: the last reducer set is otherReducer; the first call was
\* reduced by it, and so is the second call, made after the first resolved:
\* user.intent is otherReducer's intent, whatever candidates the extractors
\* gave.
C13_Witness ==
    /\ registered.reducer = "otherReducer"
    /\ reqs[1].pc = "resolved"
    /\ reqs[1].intent.topic = Str("otherReducer")
    /\ reqs[2].pc = "returning"
    /\ reqs[2].reducer = "otherReducer"
    /\ Len(reqs[2].candidates) = 2
    /\ user.intent = [action |-> Str(<<"r", "2">>), topic |-> Str("otherReducer")]

\* C14: once the reducer of a request has been invoked, every extractor the
\* request runs has resolved, in whatever order the values arrived, and the
\* candidates the reducer was given are the candidates of all of them, each
\* extractor's in its own order, none missing.
C14_ExtractionIsAJoin ==
    \A r \in Requests :
        reqs[r].pc \in {"reducing", "awaiting", "returning"} =>
            /\ Len(reqs[r].results) = Len(reqs[r].extractors)
            /\ \A i \in DOMAIN reqs[r].results : reqs[r].results[i] \notin {Pending, Rejected}
            /\ reqs[r].candidates = CandidatesOfAll(reqs[r].results)

\* C14's case: of three extractors the last resolved before the first; the
\* reducer was given the first one's two candidates, then the built-in
\* extractor's, then the last one's.
C14_Witness ==
    \E r \in Requests :
        /\ reqs[r].pc = "reducing"
        /\ reqs[r].extractors = <<"customIntent", "baseBotTextNLP", "grabTopics">>
        /\ reqs[r].overtaken
        /\ Len(reqs[r].candidates) = 5
        /\ reqs[r].candidates[1] = CandidateOne("customIntent")
        /\ reqs[r].candidates[2] = CandidateTwo("customIntent")
        /\ reqs[r].candidates[5] = CandidateThree("grabTopics")

\* C15: the user a request's skills are given has a conversation that ends
\* with the request's text and, as its intent, the intent the request's
\* reducer resolved with from the request's candidates: the append, the
\* extraction, the reduction and the assignment have all been done.
C15_SkillsSeeReducedIntent ==
    \A r \in Requests :
        (reqs[r].invoked # <<>> /\ reqs[r].pc \in {"awaiting", "returning", "failing"}) =>
            LET seen == reqs[r].seen
            IN  /\ seen.conversation # <<>>
                /\ seen.conversation[Len(seen.conversation)] = reqs[r].text
                /\ seen.conversation = TextsUpTo(r)
                /\ \A i \in DOMAIN reqs[r].results : reqs[r].results[i] # Pending
                /\ reqs[r].candidates = CandidatesOfAll(reqs[r].results)
                /\ seen.intent \in ReducerOutputs(reqs[r].reducer, reqs[r].candidates)
                /\ seen.intent = reqs[r].intent

\* C15's case: the skill of the second call is given both texts and the
\* unknown intent reduced for that call, not the location intent that the
\* first call left on the user.
C15_Witness ==
    /\ reqs[1].pc = "resolved"
    /\ reqs[1].intent.topic = Str("locations")
    /\ reqs[2].pc = "returning"
    /\ reqs[2].invoked # <<>>
    /\ reqs[2].intentBefore = reqs[1].intent
    /\ reqs[2].seen.conversation = <<"t1", "t2">>
    /\ reqs[2].seen.intent = [action |-> Str(<<"n", "o", "n", "e">>), topic |-> Null]

\* The place in the bank of the classification an intent was made from: the
\* bank's four labels begin with different letters.
PlaceOf(intent) ==
    LET first == intent.action.str[1]
    IN  CASE first = "h" -> <<1, 1>>
          [] first = "b" -> <<1, 2>>
          [] first = "n" -> <<2, 1>>
          [] OTHER -> <<2, 2>>

\* Whether place d comes before place e when the classifications are
\* collected: topic order, then label order.
CollectedBefore(d, e) == d[1] < e[1] \/ (d[1] = e[1] /\ d[2] < e[2])

\* C16: baseBotTextNLP returns one intent for each surviving classification,
\* with its confidence and topic, larger confidence first; intents of equal
\* confidence are in the order in which their classifications were collected.
C16_SortedStable ==
    (call.fn = "baseBotTextNLP" /\ \E e \in Found : Survives(e)) =>
        LET out == call.out.v
        IN  /\ call.out.array
            /\ Len(out) = Cardinality({e \in Found : Survives(e)})
            /\ {PlaceOf(out[i]) : i \in DOMAIN out} = {e \in Found : Survives(e)}
            /\ \A i \in DOMAIN out :
                  /\ out[i].details.confidence = ValueAt(PlaceOf(out[i]))
                  /\ out[i].topic.str = classifiers[PlaceOf(out[i])[1]].topic
            /\ \A i, j \in DOMAIN out :
                  i < j =>
                      \/ out[i].details.confidence > out[j].details.confidence
                      \/ /\ out[i].details.confidence = out[j].details.confidence
                         /\ CollectedBefore(PlaceOf(out[i]), PlaceOf(out[j]))

\* C16's case: s-j-c at 0.8, then hi, b-y and n-y, all at 0.7, in the
\* bank's order.
C16_Witness ==
    /\ call.fn = "baseBotTextNLP"
    /\ call.out.array
    /\ Len(call.out.v) = 4
    /\ [i \in 1..4 |-> call.out.v[i].details.confidence] = <<8, 7, 7, 7>>
    /\ [i \in 1..4 |-> PlaceOf(call.out.v[i])] = <<PlaceSJC, <<1, 1>>, <<1, 2>>, PlaceNY>>

\* A label with every '-' replaced by a space.
AllDashesReplaced(label) == [i \in DOMAIN label |-> IF label[i] = "-" THEN " " ELSE label[i]]

\* C17: the action of every intent baseBotTextNLP produces is the bank's
\* label with every '-' replaced by a space; no action contains '-'.
C17_ActionHasNoSeparator ==
    (call.fn = "baseBotTextNLP" /\ call.out.array) =>
        \A i \in DOMAIN call.out.v :
            LET action == call.out.v[i].action.str
                place == PlaceOf(call.out.v[i])
            IN  /\ \A n \in DOMAIN action : action[n] # "-"
                /\ action = AllDashesReplaced(classifiers[place[1]].classifiers[place[2]].label)

\* What holds instead for a label of one separator or none: n-y gives the
\* action 'n y'.
C17_SingleSeparatorReplaced ==
    (call.fn = "baseBotTextNLP" /\ call.out.array) =>
        \A i \in DOMAIN call.out.v :
            PlaceOf(call.out.v[i]) # PlaceSJC =>
                LET action == call.out.v[i].action.str
                    place == PlaceOf(call.out.v[i])
                IN  action = AllDashesReplaced(classifiers[place[1]].classifiers[place[2]].label)

\* The complete banks there are: the one the constructor built and the one a
\* retrain builds.
CompleteBanks == {ConstructedBank, RetrainedBank}

\* C18: this.classifiers is always one complete bank, also after a retrain
\* whose construction failed; and the value the built-in extractor gave a
\* request is what baseBotTextNLP computes from one complete bank, whenever
\* retrains happened while the request was in flight.
C18_BankReadWhole ==
    /\ classifiers \in CompleteBanks
    /\ \A r \in Requests :
          \A i \in DOMAIN reqs[r].results :
              reqs[r].extractors[i] = "baseBotTextNLP" =>
                  \E bank \in CompleteBanks :
                      reqs[r].results[i] = baseBotTextNLP(reqs[r].text, bank, classifier)

\* C18's case: a request's built-in extractor ran on the constructed bank (a
\* place at 0.8, a greeting at 0.7), a retrain has replaced the bank since,
\* and the request is not yet reduced.
C18_Witness ==
    \E r \in Requests :
        /\ reqs[r].pc = "extracting"
        /\ reqs[r].text = "t1"
        /\ classifiers = RetrainedBank
        /\ \E i \in DOMAIN reqs[r].results :
              /\ reqs[r].extractors[i] = "baseBotTextNLP"
              /\ reqs[r].results[i].array
              /\ Len(reqs[r].results[i].v) = 2
              /\ reqs[r].results[i].v[1].details.confidence = 8
              /\ reqs[r].results[i] # baseBotTextNLP("t1", RetrainedBank, classifier)

\* The number of calls made so far.
CallsMade == Cardinality({r \in Requests : reqs[r].pc # "idle"})

\* C19: whatever the interleaving of overlapping calls, once a call has been
\* made user.conversation is the texts of the calls made, each once and in
\* call order; and the skills of a request were given a user whose intent is
\* the intent the reducer resolved with for that request.
C19_OverlapKeepsAppendsAndIntent ==
    /\ CallsMade > 0 =>
          /\ "conversation" \in DOMAIN user
          /\ user.conversation = TextsUpTo(CallsMade)
    /\ \A r \in Requests :
          (reqs[r].invoked # <<>> /\ reqs[r].pc \in {"awaiting", "returning", "failing"}) =>
              /\ reqs[r].seen.intent \in ReducerOutputs(reqs[r].reducer, reqs[r].candidates)
              /\ reqs[r].seen.intent = reqs[r].intent

\* C19's case: the second call was made while the first was in flight.  The
\* first call's skill was given the first call's intent, a location, and has
\* not settled; the second call's skill was then given the second call's
\* intent, the unknown intent, which is now on the user; both texts are there.
C19_Witness ==
    /\ reqs[1].pc = "awaiting"
    /\ reqs[2].pc = "returning"
    /\ reqs[1].text = "t1"
    /\ reqs[2].text = "t2"
    /\ reqs[1].invoked # <<>>
    /\ reqs[2].invoked # <<>>
    /\ reqs[1].seen.intent.topic = Str("locations")
    /\ reqs[2].seen.intent = [action |-> Str(<<"n", "o", "n", "e">>), topic |-> Null]
    /\ user.intent = reqs[2].seen.intent
    /\ user.conversation = <<"t1", "t2">>

\* The steps of request r: its call, the start of its extractors, and the
\* callback that assigns the intent and walks the skills.
CallStep(r) == reqs[r].pc = "idle" /\ reqs'[r].pc = "called"
MapStep(r) == reqs[r].pc = "called" /\ reqs'[r].pc = "extracting"
WalkStep(r) == reqs[r].pc = "reducing" /\ reqs'[r].intent # Null

\* The extractors of a request are this.intents as it was at the call, each
\* run once; a later call takes this.intents as it is then.
ExtractorsAreThoseAtCall(r) ==
    /\ CallStep(r) => reqs'[r].extractors = intents
    /\ (reqs[r].pc \in {"called", "extracting", "reducing"} /\ ~Settled(r)') =>
           reqs'[r].extractors = reqs[r].extractors
    /\ MapStep(r) => DOMAIN reqs'[r].results = DOMAIN reqs[r].extractors

\* C20, as claimed: the extractors of a request are those registered at its
\* call, and the skills it walks are those registered at its call, whatever
\* was registered while it was in flight.
C20_RegistrationsInFlightIgnored ==
    [][\A r \in Requests :
          /\ ExtractorsAreThoseAtCall(r)
          /\ WalkStep(r) => reqs'[r].chain = reqs[r].skillsAtCall
      ]_vars

\* C20, amended: the extractors of a request are those registered at its
\* call; the skills it walks are this.skills as it is when the request's
\* reducer has resolved: the skills registered at the call, preceded by those
\* registered since.
C20_ExtractorsAtCallSkillsAtWalk ==
    [][\A r \in Requests :
          /\ ExtractorsAreThoseAtCall(r)
          /\ CallStep(r) => reqs'[r].skillsAtCall = skills
          /\ WalkStep(r) =>
                /\ reqs'[r].chain = skills
                /\ Len(skills) >= Len(reqs[r].skillsAtCall)
                /\ SubSeq(skills, Len(skills) - Len(reqs[r].skillsAtCall) + 1, Len(skills))
                      = reqs[r].skillsAtCall
                /\ \A j \in DOMAIN reqs'[r].invoked : reqs'[r].invoked[j].skill = skills[j]
      ]_vars

\* C20's case: an extractor and a skill were registered while the first call
\* was in flight; the call ran the two built-in extractors only, and invoked
\* the new skill.
C20_Witness ==
    /\ reqs[1].pc = "returning"
    /\ reqs[2].pc = "idle"
    /\ reqs[1].extractors = <<"baseBotTextNLP", "grabTopics">>
    /\ intents = <<"customIntent", "baseBotTextNLP", "grabTopics">>
    /\ reqs[1].chain = <<"skillA">>
    /\ Len(reqs[1].invoked) = 1
    /\ reqs[1].invoked[1].skill = "skillA"
    /\ "skillA" \in DOMAIN user

====
